---- MODULE Spec2Model ----
(***************************************************************************)
(* A model of utils/model/gen_uml.py, the Gaphor code generator: the       *)
(* passes of generate() over the parsed element graph and the calls it     *)
(* makes on the writer.                                                    *)
(*                                                                         *)
(* Python values are encoded as strings so that a field can hold None or   *)
(* a value: None is "None" (what an f-string prints for it), the integers  *)
(* 0 and 1 are Int0 and Int1 (distinct from the strings "0" and "1" read   *)
(* from the model file).  An element is a record; a field the model file   *)
(* does not set holds None, which is what the patched base.__getitem__     *)
(* returns for it.                                                         *)
(***************************************************************************)
EXTENDS Integers, Sequences, FiniteSets, TLC

VARIABLES
    pc,                 \* position of generate() in its sequence of loops
    overrides,          \* the override policy: the qualified names it derives
    properties,         \* properties dict: id -> element (raw and added fields)
    calls,              \* the calls made on the writer, in order
    derivedattributes,  \* generate.derivedattributes: name -> property id
    derivedunions,      \* generate.derivedunions: name -> property id
    redefines,          \* generate.redefines: list of property ids
    msgs,               \* msg() diagnostics, in order
    err,                \* the exception that ended generate(), or None
    branch,             \* per association end: the branch of lines 314-338 taken
    nattr,              \* owned attributes processed so far
    nassoc,             \* associations processed so far
    head,               \* parse_association_end: the end under resolution
    classes,            \* filter_out_metaclasses: the class map (set of ids)
    extensions,         \* filter_out_metaclasses: Extension elements
    stereo,             \* enrich_classes_with_stereotypes: the class graph
    refs,               \* resolve: val.references of the elements
    cursor,             \* position of a pass in the dict it iterates
    history             \* resolve: the calls made, with the field before and after

vars == <<pc, overrides, properties, calls, derivedattributes, derivedunions,
          redefines, msgs, err, branch, nattr, nassoc, head, classes,
          extensions, stereo, refs, cursor, history>>

genVars == <<overrides, properties, calls, derivedattributes, derivedunions,
             redefines, msgs, branch, nattr, nassoc>>

None == "None"
Int0 == "0:int"
Int1 == "1:int"

\* Python truthiness of an encoded value.
Truthy(v) == v \notin {None, "", Int0}

\* x or y
Or(x, y) == IF Truthy(x) THEN x ELSE y

\* A dict is the sequence of its items [k, v] in insertion order.
DictKeys(d) == {d[i].k : i \in DOMAIN d}

DictGet(d, k) == d[CHOOSE i \in DOMAIN d : d[i].k = k].v

\* d[k] = v: a new key is appended, a known key keeps its place.
DictPut(d, k, v) ==
    IF k \in DictKeys(d)
    THEN [i \in DOMAIN d |-> IF d[i].k = k THEN [k |-> k, v |-> v] ELSE d[i]]
    ELSE Append(d, [k |-> k, v |-> v])

\* A function extended or overwritten at one point.
Put(f, x, y) == [z \in DOMAIN f \cup {x} |-> IF z = x THEN y ELSE f[z]]

\* ---------------------------------------------------------------------
\* Bounds of the model.

\* Owned attributes without an association that a run processes, at most.
MaxAttrs == 2
\* Associations that a run processes, at most.
MaxAssocs == 1
\* Associations that a run over the narrower member ends processes, at most.
MaxPairAssocs == 2
\* Extension elements in the metaclass filter's input, at most.
MaxExtensions == 2
\* Classes in the input of the generalization and stereotype passes.
NumClasses == 3
\* Calls of resolve that a run makes, at most.
MaxCalls == 3

\* ---------------------------------------------------------------------
\* The class map generate() works on after the filters (lines 282-286).
\* Box and Node are plain classes; Color carries the SimpleAttribute
\* stereotype; Meta is a metaclass that filter_out_metaclasses deleted.

AllClasses == {"Box", "Node", "Color"}

stereotypeName(c) == IF c = "Color" THEN "SimpleAttribute" ELSE None

ClassOrder == <<"Box", "Node", "Color">>

\* Property names, and the union name no end carries.
Names == {"x", "y"}

\* ---------------------------------------------------------------------
\* Strings that the tag parser takes apart are sequences of tokens: a name,
\* a blank (" ", "\n", "\r") or a comma.

Blank == {" ", "\n", "\r"}

RECURSIVE StripBlanks(_)
StripBlanks(s) ==
    IF s = <<>> THEN <<>>
    ELSE IF Head(s) \in Blank THEN StripBlanks(Tail(s))
    ELSE <<Head(s)>> \o StripBlanks(Tail(s))

\* The text of a token sequence without separators ("" when empty).
RECURSIVE Text(_)
Text(s) == IF s = <<>> THEN "" ELSE Head(s) \o Text(Tail(s))

\* str.split(","): the pieces between commas, empty pieces kept.
RECURSIVE SplitAcc(_, _)
SplitAcc(s, cur) ==
    IF s = <<>> THEN <<Text(cur)>>
    ELSE IF Head(s) = "," THEN <<Text(cur)>> \o SplitAcc(Tail(s), <<>>)
    ELSE SplitAcc(Tail(s), Append(cur, Head(s)))

Split(s) == SplitAcc(s, <<>>)

\* The slots of a list of stereotype instances, in iteration order.
RECURSIVE AllSlots(_)
AllSlots(sts) ==
    IF sts = <<>> THEN <<>> ELSE Head(sts).slot \o AllSlots(Tail(sts))

RECURSIVE TagsAcc(_, _)
TagsAcc(slots, acc) ==
    IF slots = <<>> THEN acc
    ELSE LET s == Head(slots)
             a1 == IF s.definingFeature = "subsets"
                   THEN [acc EXCEPT !.subsets = Split(StripBlanks(s.value))]
                   ELSE acc
             a2 == IF s.definingFeature = "redefines"
                   THEN [a1 EXCEPT !.redefines = Text(StripBlanks(s.value))]
                   ELSE a1
         IN  TagsAcc(Tail(slots), a2)

parse_association_tags(appliedStereotypes) ==
    TagsAcc(AllSlots(appliedStereotypes), [subsets |-> <<>>, redefines |-> None])

\* ---------------------------------------------------------------------
\* Property elements.  The first block is what the model file holds, the
\* second what the passes add (None, or the empty list, until then).

NewProperty(name, type, class_, association, lowerValue, upperValue, isDerived, aggregation, appliedStereotype) ==
    [name |-> name, type |-> type, class_ |-> class_,
     association |-> association,
     lowerValue |-> lowerValue, upperValue |-> upperValue,
     isDerived |-> isDerived, aggregation |-> aggregation,
     appliedStereotype |-> appliedStereotype,
     written |-> FALSE,
     class_name |-> None, opposite_class_name |-> None,
     is_simple_attribute |-> FALSE,
     navigable |-> None, lower |-> None, upper |-> None,
     subsets |-> <<>>, composite |-> FALSE, derived |-> None,
     redefines |-> None, typeValue |-> None, union |-> {}]

\* int(x) of a value read from the model file.
ToInt(v) == IF v \in {"0", Int0} THEN Int0 ELSE Int1

\* Lines 131-132 left out: an unlimited lower bound is kept.
lower_star_kept(lower) == lower

\* Lines 131-132.
parse_association_end_lower_star(lower) == IF lower = "*" THEN Int0 ELSE lower

\* parse_association_end(head, tail): the enriched head, and the error raised.
parse_association_end(h) ==
    LET nav == h.class_
        h1  == [h EXCEPT !.navigable = nav]
    IN  IF ~Truthy(nav) THEN [err |-> None, end |-> h1]
        ELSE IF h1.name = None THEN [err |-> "ValueError", end |-> h1]
        ELSE LET upper == Or(h1.upperValue, "*")
                 lower == parse_association_end_lower_star(Or(h1.lowerValue, upper))
                 tags  == parse_association_tags(h1.appliedStereotype)
             IN  [err |-> None,
                  end |-> [h1 EXCEPT !.class_name = h1.class_,
                                     !.opposite_class_name = h1.type,
                                     !.lower = lower,
                                     !.upper = upper,
                                     !.subsets = tags.subsets,
                                     !.composite = (h1.aggregation = "composite"),
                                     !.derived = ToInt(Or(h1.isDerived, Int0)),
                                     !.redefines = tags.redefines]]

\* ---------------------------------------------------------------------
\* The writer: every call is logged with the fields of the element it is
\* handed as they are at the call.

NoId == <<0, 0>>

Call(op, h, t, cn, nm, tv) ==
    [op |-> op, head |-> h, tail |-> t,
     class_name |-> cn, name |-> nm, typeValue |-> tv]

\* overrides.derives(f"{class_name}.{name}")
derives(ov, class_name, name) == <<class_name, name>> \in ov

\* filter_out_simple_attributes(all_classes): the retained classes.
filter_out_simple_attributes(cs) ==
    {c \in cs : stereotypeName(c) # "SimpleAttribute"}

RetainedClasses == filter_out_simple_attributes(AllClasses)

\* The elements of a sequence that lie in a set, in order.
RECURSIVE Keep(_, _)
Keep(seq, S) ==
    IF seq = <<>> THEN <<>>
    ELSE IF Head(seq) \in S THEN <<Head(seq)>> \o Keep(Tail(seq), S)
    ELSE Keep(Tail(seq), S)

\* ---------------------------------------------------------------------
\* get_association_ends(a, properties, all_classes) on the two member ends
\* e[1], e[2] of an association: the error raised, the ends with
\* is_simple_attribute set, and a.asAttribute as an index (0 for None).

get_association_end(p) ==
    IF p.type \notin AllClasses THEN [err |-> "KeyError", end |-> p]
    ELSE IF Truthy(p.class_) /\ p.class_ \notin AllClasses
         THEN [err |-> "KeyError", end |-> p]
    ELSE [err |-> None,
          end |-> [p EXCEPT !.is_simple_attribute =
                               (stereotypeName(p.type) = "SimpleAttribute")]]

get_association_ends(e) ==
    LET r1 == get_association_end(e[1])
        r2 == get_association_end(e[2])
    IN  IF r1.err # None THEN [err |-> r1.err, ends |-> e, asAttribute |-> 0]
        ELSE IF r2.err # None
             THEN [err |-> r2.err, ends |-> <<r1.end, e[2]>>, asAttribute |-> 0]
        ELSE [err |-> None, ends |-> <<r1.end, r2.end>>,
              asAttribute |-> IF r2.end.is_simple_attribute THEN 2
                              ELSE IF r1.end.is_simple_attribute THEN 1
                              ELSE 0]

\* Lines 310-311: parse_association_end on both orientations.
parse_both_ends(e) ==
    LET r1 == parse_association_end(e[1])
        r2 == parse_association_end(e[2])
    IN  IF r1.err # None THEN [err |-> r1.err, ends |-> <<r1.end, e[2]>>]
        ELSE [err |-> r2.err, ends |-> <<r1.end, r2.end>>]

\* ---------------------------------------------------------------------
\* The loop of lines 313-338.  st holds the variables the loop works on.

\* Lines 330-336 without the assertion: a later end replaces the union.
register_unchecked(st, e1) ==
    LET p1 == st.properties[e1]
    IN  [st EXCEPT !.derivedunions = DictPut(@, p1.name, e1),
                   !.properties = [@ EXCEPT ![e1] =
                       [p1 EXCEPT !.union = {<<>>}, !.written = FALSE]],
                   !.branch = Put(@, e1, "derivedunion")]

\* Lines 330-336: the derived-union branch for head e1.
register_derivedunion(st, e1) ==
    LET p1 == st.properties[e1]
    IN  IF p1.name \in DictKeys(st.derivedunions)
        THEN [st EXCEPT !.err = "AssertionError",
                        !.branch = Put(@, e1, "duplicate")]
        ELSE [st EXCEPT !.derivedunions = DictPut(@, p1.name, e1),
                        !.properties = [@ EXCEPT ![e1] =
                            [p1 EXCEPT !.union = {<<>>}, !.written = FALSE]],
                        !.branch = Put(@, e1, "derivedunion")]

\* Lines 315-324 without the test of e1.navigable.
simple_attribute_unguarded(st, e1, e2) ==
    LET p1 == st.properties[e1]
        p2 == st.properties[e2]
    IN  [st EXCEPT !.properties = [@ EXCEPT
                       ![e1] = [p1 EXCEPT !.class_name = p2.type,
                                          !.typeValue = "str",
                                          !.written = TRUE],
                       ![e2] = [p2 EXCEPT !.written = TRUE]],
                   !.calls = Append(@, Call("add_attribute", e1,
                                            NoId, p2.type, p1.name, "str")),
                   !.branch = Put(@, e1, "simple")]

\* Lines 315-324: the simple-attribute rewrite for head e1 and tail e2.
simple_attribute(st, e1, e2) ==
    LET p1 == st.properties[e1]
        p2 == st.properties[e2]
    IN  IF Truthy(p1.navigable)
        THEN [st EXCEPT !.properties = [@ EXCEPT
                            ![e1] = [p1 EXCEPT !.class_name = p2.type,
                                               !.typeValue = "str",
                                               !.written = TRUE],
                            ![e2] = [p2 EXCEPT !.written = TRUE]],
                        !.calls = Append(@, Call("add_attribute", e1,
                                                 NoId, p2.type, p1.name, "str")),
                        !.branch = Put(@, e1, "simple")]
        ELSE [st EXCEPT !.branch = Put(@, e1, "skipped")]

\* One iteration: head e1 = <<a, i>>, tail e2 the other end of a.
classify_end(st, a, i, asAttribute, ov) ==
    LET e1 == <<a, i>>
        e2 == <<a, 3 - i>>
        p1 == st.properties[e1]
    IN  IF asAttribute # 0
        THEN IF asAttribute = i THEN simple_attribute(st, e1, e2)
             ELSE [st EXCEPT !.branch = Put(@, e1, "skipped")]
        ELSE IF Truthy(p1.redefines)
        THEN [st EXCEPT !.redefines = Append(@, e1),
                        !.branch = Put(@, e1, "redefine")]
        ELSE IF Truthy(p1.derived) \/ derives(ov, p1.class_name, p1.name)
        THEN register_derivedunion(st, e1)
        ELSE IF Truthy(p1.navigable)
        THEN [st EXCEPT !.calls = Append(@, Call("add_association", e1,
                                                 e2, p1.class_name, p1.name,
                                                 p1.typeValue)),
                        !.branch = Put(@, e1, "association")]
        ELSE [st EXCEPT !.branch = Put(@, e1, "dropped")]

\* Lines 308-338 for one association a with raw member ends e[1], e[2].
process_association(st, a, e, ov) ==
    LET g   == get_association_ends(e)
        ps  == parse_both_ends(g.ends)
        rev(ends) == Put(Put(st.properties, <<a, 1>>, ends[1]), <<a, 2>>, ends[2])
        st0 == [st EXCEPT !.properties = rev(ps.ends)]
        st1 == classify_end(st0, a, 1, g.asAttribute, ov)
    IN  IF g.err # None
        THEN [st EXCEPT !.properties = rev(g.ends), !.err = g.err]
        ELSE IF ps.err # None
        THEN [st0 EXCEPT !.err = ps.err]
        ELSE IF st1.err # None THEN st1
        ELSE classify_end(st1, a, 2, g.asAttribute, ov)

\* ---------------------------------------------------------------------
\* The inputs a run draws: the override policy, the owned attributes and
\* the associations of the model file.

\* The qualified names an override policy may declare derived.
PolicyKeys == {<<None, "x">>, <<"Box", "x">>, <<"Node", "x">>}

\* The types of association ends: a plain class, a SimpleAttribute class,
\* a deleted metaclass.
EndTypes == {"Box", "Color", "Meta"}

Stereotype(feature, value) ==
    <<[slot |-> <<[definingFeature |-> feature, value |-> value]>>]>>

TagChoices ==
    {<<>>,
     Stereotype("redefines", <<"x">>),
     Stereotype("subsets", <<"x", ",", " ", "u">>)}

\* What the model file says of a member end.  A non-navigable or unnamed
\* end is resolved no further, so nothing else of it is read.
EndChoices ==
    {c \in [nav : BOOLEAN, name : Names \cup {None}, isDerived : {None, "1"},
            tags : TagChoices] :
        (~c.nav \/ c.name = None) => (c.isDerived = None /\ c.tags = <<>>)}

\* The member end with type t whose opposite end has type o: a navigable
\* end is owned by the class at the opposite end.
RawEnd(c, t, o) ==
    NewProperty(c.name, t, IF c.nav THEN o ELSE None, TRUE, None, None,
                c.isDerived, None, c.tags)

\* The names of the owned attributes that have no association.
AttrNames == {"x"}

\* ownedOperation of the retained classes.
ownedOperation(c) == IF c = "Box" THEN <<"op1">> ELSE <<>>

ClassIndex(c) == CHOOSE i \in DOMAIN ClassOrder : ClassOrder[i] = c

\* properties.values(): the owned attributes, then the member ends.
PropertyOrder(props) ==
    LET ids == [i \in 1..(MaxAttrs + 2 * (MaxAssocs + MaxPairAssocs)) |->
                   IF i <= MaxAttrs THEN <<0, i>>
                   ELSE <<(i - MaxAttrs + 1) \div 2, 2 - ((i - MaxAttrs) % 2)>>]
    IN  Keep(ids, DOMAIN props)

\* ---------------------------------------------------------------------
\* Lines 341-347: link the subsetting properties to their derived unions.
\* st holds properties and msgs.

\* Lines 342-347 without the test of line 344.
RECURSIVE link_subsets_untested(_, _, _, _)
link_subsets_untested(st, du, a, subs) ==
    IF subs = <<>> THEN st
    ELSE LET s == Head(subs)
             p == st.properties[a]
             u == DictGet(du, s)
             next ==
                 IF s \in DictKeys(du)
                 THEN [st EXCEPT !.properties[u].union = {Append(l, a) : l \in @}]
                 ELSE [st EXCEPT !.msgs = Append(@,
                           [text |-> "not a derived union", property |-> a,
                            class_name |-> p.class_name, name |-> s])]
         IN  link_subsets_untested(next, du, a, Tail(subs))

\* Lines 342-347 for property a and its subsets.
RECURSIVE link_subsets(_, _, _, _)
link_subsets(st, du, a, subs) ==
    IF subs = <<>> THEN st
    ELSE LET s == Head(subs)
             p == st.properties[a]
             u == DictGet(du, s)
             next ==
                 IF p.type \in RetainedClasses
                 THEN IF s \in DictKeys(du)
                      THEN [st EXCEPT !.properties[u].union =
                                {Append(l, a) : l \in @}]
                      ELSE [st EXCEPT !.msgs = Append(@,
                                [text |-> "not a derived union", property |-> a,
                                 class_name |-> p.class_name, name |-> s])]
                 ELSE st
         IN  link_subsets(next, du, a, Tail(subs))

RECURSIVE link_properties(_, _, _)
link_properties(st, du, order) ==
    IF order = <<>> THEN st
    ELSE link_properties(
             link_subsets(st, du, Head(order), st.properties[Head(order)].subsets),
             du, Tail(order))

\* ---------------------------------------------------------------------
\* generate(), from the class definitions on (lines 288-369).

\* The loops with lines 355-356 and 358-360 in each other's place.
loop_after_swapped(loop) ==
    CASE loop = "classdefs" -> "attributes"
      [] loop = "attributes" -> "associations"
      [] loop = "associations" -> "unions"
      [] loop = "unions" -> "derivedattributes"
      [] loop = "derivedattributes" -> "redefines"
      [] loop = "redefines" -> "derivedunions"
      [] loop = "derivedunions" -> "operations"
      [] loop = "operations" -> "write"
      [] loop = "write" -> "done"

\* The order of the loops of generate().
loop_after(loop) ==
    CASE loop = "classdefs" -> "attributes"
      [] loop = "attributes" -> "associations"
      [] loop = "associations" -> "unions"
      [] loop = "unions" -> "derivedattributes"
      [] loop = "derivedattributes" -> "derivedunions"
      [] loop = "derivedunions" -> "redefines"
      [] loop = "redefines" -> "operations"
      [] loop = "operations" -> "write"
      [] loop = "write" -> "done"

GenInit ==
    /\ pc = "classdefs"
    /\ overrides \in SUBSET PolicyKeys
    /\ properties = <<>>
    /\ calls = <<>>
    /\ derivedattributes = <<>>
    /\ derivedunions = <<>>
    /\ redefines = <<>>
    /\ msgs = <<>>
    /\ err = None
    /\ branch = <<>>
    /\ nattr = 0
    /\ nassoc = 0

Idle ==
    /\ head = None
    /\ classes = {}
    /\ extensions = <<>>
    /\ stereo = <<>>
    /\ refs = <<>>
    /\ cursor = 0
    /\ history = <<>>

otherVars == <<head, classes, extensions, stereo, refs, cursor, history>>

\* Lines 288-289.
EmitClassdefs ==
    /\ pc = "classdefs"
    /\ LET cs == Keep(ClassOrder, RetainedClasses)
       IN  calls' = calls \o [i \in DOMAIN cs |->
                        Call("add_classdef", NoId, NoId, cs[i], cs[i], None)]
    /\ pc' = loop_after(pc)
    /\ UNCHANGED <<overrides, properties, derivedattributes, derivedunions,
                   redefines, msgs, err, branch, nattr, nassoc, otherVars>>

\* Lines 293-302 for the next owned attribute that has no association: one
\* named n, owned by retained class c.  Classes are visited in dict order,
\* and the attributes of one class have different names.
AttributeStep ==
    /\ pc = "attributes"
    /\ nattr < MaxAttrs
    /\ \E c \in RetainedClasses, n \in AttrNames :
         LET id == <<0, nattr + 1>>
             a  == [NewProperty(n, None, c, FALSE, None, None, None, None, <<>>)
                       EXCEPT !.class_name = c]
         IN  /\ nattr > 0 =>
                  ClassIndex(properties[<<0, nattr>>].class_name) <= ClassIndex(c)
             /\ \A k \in 1..nattr :
                  properties[<<0, k>>].class_name = c => properties[<<0, k>>].name # n
             /\ properties' = Put(properties, id, a)
             /\ IF derives(overrides, a.class_name, a.name)
                THEN /\ derivedattributes' = DictPut(derivedattributes, a.name, id)
                     /\ calls' = calls
                ELSE /\ calls' = Append(calls, Call("add_attribute", id,
                                        NoId, a.class_name, a.name, a.typeValue))
                     /\ derivedattributes' = derivedattributes
    /\ nattr' = nattr + 1
    /\ UNCHANGED <<pc, overrides, derivedunions, redefines, msgs, err, branch,
                   nassoc, otherVars>>

\* The loop of lines 293-302 ends.
EndAttributes ==
    /\ pc = "attributes"
    /\ pc' = loop_after(pc)
    /\ UNCHANGED <<genVars, err, otherVars>>

\* Lines 307-338 for the next association, of a model file with at most
\* max associations whose member ends have types in T and contents in C.
AssociationStep(T, C, max) ==
    /\ pc = "associations"
    /\ nassoc < max
    /\ \E t1 \in T, t2 \in T, c1 \in C, c2 \in C :
         LET st == [properties |-> properties, calls |-> calls,
                    derivedunions |-> derivedunions, redefines |-> redefines,
                    branch |-> branch, err |-> None]
             r  == process_association(st, nassoc + 1,
                       <<RawEnd(c1, t1, t2), RawEnd(c2, t2, t1)>>, overrides)
         IN  /\ properties' = r.properties
             /\ calls' = r.calls
             /\ derivedunions' = r.derivedunions
             /\ redefines' = r.redefines
             /\ branch' = r.branch
             /\ err' = r.err
             /\ pc' = IF r.err # None THEN "aborted" ELSE pc
    /\ nassoc' = nassoc + 1
    /\ UNCHANGED <<overrides, derivedattributes, msgs, nattr, otherVars>>

\* The loop of lines 307-338 ends.
EndAssociations ==
    /\ pc = "associations"
    /\ pc' = loop_after(pc)
    /\ UNCHANGED <<genVars, err, otherVars>>

\* Lines 341-347.
AggregateUnions ==
    /\ pc = "unions"
    /\ LET r == link_properties([properties |-> properties, msgs |-> msgs],
                                derivedunions, PropertyOrder(properties))
       IN  /\ properties' = r.properties
           /\ msgs' = r.msgs
    /\ pc' = loop_after(pc)
    /\ UNCHANGED <<overrides, calls, derivedattributes, derivedunions, redefines,
                   err, branch, nattr, nassoc, otherVars>>

\* Lines 352-353.
EmitDerivedAttributes ==
    /\ pc = "derivedattributes"
    /\ calls' = calls \o [i \in DOMAIN derivedattributes |->
                    LET d == properties[derivedattributes[i].v]
                    IN  Call("add_attribute", derivedattributes[i].v,
                             NoId, d.class_name, d.name, d.typeValue)]
    /\ pc' = loop_after(pc)
    /\ UNCHANGED <<overrides, properties, derivedattributes, derivedunions,
                   redefines, msgs, err, branch, nattr, nassoc, otherVars>>

\* Lines 355-356.
EmitDerivedUnions ==
    /\ pc = "derivedunions"
    /\ calls' = calls \o [i \in DOMAIN derivedunions |->
                    LET d == properties[derivedunions[i].v]
                    IN  Call("add_derivedunion", derivedunions[i].v,
                             NoId, d.class_name, d.name, d.typeValue)]
    /\ pc' = loop_after(pc)
    /\ UNCHANGED <<overrides, properties, derivedattributes, derivedunions,
                   redefines, msgs, err, branch, nattr, nassoc, otherVars>>

\* Lines 358-360.
EmitRedefines ==
    /\ pc = "redefines"
    /\ calls' = calls \o [i \in DOMAIN redefines |->
                    LET r == properties[redefines[i]]
                    IN  Call("add_redefine", redefines[i], NoId,
                             r.class_name, r.name, r.typeValue)]
    /\ msgs' = msgs \o [i \in DOMAIN redefines |->
                    LET r == properties[redefines[i]]
                    IN  [text |-> "redefining", property |-> redefines[i],
                         class_name |-> r.class_name, name |-> r.name]]
    /\ pc' = loop_after(pc)
    /\ UNCHANGED <<overrides, properties, derivedattributes, derivedunions,
                   redefines, err, branch, nattr, nassoc, otherVars>>

\* The operations of the retained classes, in the order of lines 363-364.
RECURSIVE operations_of(_)
operations_of(cs) ==
    IF cs = <<>> THEN <<>>
    ELSE [i \in DOMAIN ownedOperation(Head(cs)) |->
             Call("add_operation", NoId, NoId, Head(cs),
                  ownedOperation(Head(cs))[i], None)]
         \o operations_of(Tail(cs))

\* Lines 363-367.
EmitOperations ==
    /\ pc = "operations"
    /\ calls' = calls \o operations_of(Keep(ClassOrder, RetainedClasses))
    /\ pc' = loop_after(pc)
    /\ UNCHANGED <<overrides, properties, derivedattributes, derivedunions,
                   redefines, msgs, err, branch, nattr, nassoc, otherVars>>

\* Line 369.
Write ==
    /\ pc = "write"
    /\ calls' = Append(calls, Call("write", NoId, NoId, None, None, None))
    /\ pc' = loop_after(pc)
    /\ UNCHANGED <<overrides, properties, derivedattributes, derivedunions,
                   redefines, msgs, err, branch, nattr, nassoc, otherVars>>

Init == GenInit /\ Idle

Next ==
    \/ EmitClassdefs
    \/ AttributeStep
    \/ EndAttributes
    \/ AssociationStep(EndTypes, EndChoices, MaxAssocs)
    \/ EndAssociations
    \/ AggregateUnions
    \/ EmitDerivedAttributes
    \/ EmitDerivedUnions
    \/ EmitRedefines
    \/ EmitOperations
    \/ Write

Spec == Init /\ [][Next]_vars

\* ---------------------------------------------------------------------
\* generate() on model files with up to MaxPairAssocs associations between
\* Box and Color whose classes own no attribute without an association.

PairTypes == {"Box", "Color"}

PairChoices ==
    {c \in EndChoices :
        /\ c.name # None
        /\ ~c.nav => c.name = "x"
        /\ c.isDerived # None => c.tags = <<>>
        /\ c.tags # Stereotype("redefines", <<"x">>)}

PairInit ==
    /\ GenInit
    /\ overrides \subseteq {<<"Box", "x">>}
    /\ Idle

PairNext ==
    \/ EmitClassdefs
    \/ EndAttributes
    \/ AssociationStep(PairTypes, PairChoices, MaxPairAssocs)
    \/ EndAssociations
    \/ AggregateUnions
    \/ EmitDerivedAttributes
    \/ EmitDerivedUnions
    \/ EmitRedefines
    \/ EmitOperations
    \/ Write

SpecPair == PairInit /\ [][PairNext]_vars

\* ---------------------------------------------------------------------
\* parse_association_end on one navigable or non-navigable end, over the
\* multiplicities a model file can hold.

GenIdle ==
    /\ overrides = {}
    /\ properties = <<>>
    /\ calls = <<>>
    /\ derivedattributes = <<>>
    /\ derivedunions = <<>>
    /\ redefines = <<>>
    /\ msgs = <<>>
    /\ branch = <<>>
    /\ nattr = 0
    /\ nassoc = 0

\* lowerValue and upperValue: absent, empty, a number, unlimited.
MultValues == {None, "", "0", "1", "2", "*"}

EndInit ==
    /\ pc = "resolve"
    /\ err = None
    /\ \E n \in {"children", None}, c \in {None, "Node"}, lo \in MultValues,
          up \in MultValues, d \in {None, "0", "1"},
          ag \in {None, "composite"}, tags \in TagChoices :
         head = NewProperty(n, "Node", c, TRUE, lo, up, d, ag, tags)
    /\ classes = {}
    /\ extensions = <<>>
    /\ stereo = <<>>
    /\ refs = <<>>
    /\ cursor = 0
    /\ history = <<>>
    /\ GenIdle

\* Line 311: parse_association_end(e1, e2).
ResolveEnd ==
    /\ pc = "resolve"
    /\ LET r == parse_association_end(head)
       IN  /\ head' = r.end
           /\ err' = r.err
           /\ pc' = IF r.err # None THEN "aborted" ELSE "resolved"
    /\ UNCHANGED <<genVars, classes, extensions, stereo, refs, cursor, history>>

SpecEnd == EndInit /\ [][ResolveEnd]_vars

\* ---------------------------------------------------------------------
\* filter_out_metaclasses (lines 147-163).

\* The classes dict handed to the filter.
MetaClasses == {"A", "B", "C"}

\* The type of an Extension's member end: none, a class, the stereotype.
MemberTypes == {None, "A", "B", "St"}

RECURSIVE SeqsUpTo(_, _)
SeqsUpTo(S, n) ==
    IF n = 0 THEN {<<>>}
    ELSE LET shorter == SeqsUpTo(S, n - 1)
         IN  shorter \cup {Append(q, x) : q \in shorter, x \in S}

MemberEndLists == {[i \in DOMAIN q |-> [type |-> q[i]]] : q \in SeqsUpTo(MemberTypes, 2)}

MetaInit ==
    /\ pc = "filter"
    /\ err = None
    /\ classes = MetaClasses
    /\ \E q \in SeqsUpTo(MemberEndLists, MaxExtensions) :
         extensions = [i \in DOMAIN q |-> [memberEnd |-> q[i]]]
    /\ cursor = 0
    /\ head = None
    /\ stereo = <<>>
    /\ refs = <<>>
    /\ history = <<>>
    /\ GenIdle

\* Lines 154-159: the member ends that have a type.
RECURSIVE typed_ends(_)
typed_ends(ends) ==
    IF ends = <<>> THEN <<>>
    ELSE IF ~Truthy(Head(ends).type) THEN typed_ends(Tail(ends))
    ELSE <<Head(ends)>> \o typed_ends(Tail(ends))

\* Lines 160-162: the class an Extension deletes, as a set; {} for none.
deleted_class(ends) == IF ends = <<>> THEN {} ELSE {ends[1].type}

\* Lines 152-162 for the next Extension.
FilterExtension ==
    /\ pc = "filter"
    /\ cursor < Len(extensions)
    /\ LET ends == typed_ends(extensions[cursor + 1].memberEnd)
           del  == deleted_class(ends)
       IN  /\ extensions' = [extensions EXCEPT ![cursor + 1].memberEnd = ends]
           /\ IF del \subseteq classes
              THEN /\ classes' = classes \ del
                   /\ UNCHANGED <<pc, err>>
              ELSE /\ err' = "KeyError"
                   /\ pc' = "aborted"
                   /\ UNCHANGED classes
    /\ cursor' = cursor + 1
    /\ UNCHANGED <<genVars, head, stereo, refs, history>>

\* Line 163.
EndFilter ==
    /\ pc = "filter"
    /\ cursor = Len(extensions)
    /\ pc' = "filtered"
    /\ UNCHANGED <<genVars, err, head, classes, extensions, stereo, refs,
                   cursor, history>>

SpecMeta == MetaInit /\ [][FilterExtension \/ EndFilter]_vars

\* ---------------------------------------------------------------------
\* enrich_classes_with_generalizations and enrich_classes_with_stereotypes
\* (lines 170-202) on classes 1..NumClasses.  stereo holds
\*   order             the classes in the order of classes.values()
\*   appliedStereotype per class, the instance specifications applied
\*   generalizations   the Generalization elements [specific, general]
\*   specialization, generalization, stereotypeName   per class, as added

StereoClasses == 1..NumClasses

\* Instance specifications, their classifier and its name
\* (Class.appliedStereotype.classifier.name).
Instances == {"i1", "i2"}

classifier(inst) == IF inst = "i1" THEN <<"st1">> ELSE <<"st2">>

StereotypeNameOf(st) == IF st = "st1" THEN "S1" ELSE "S2"

\* Generalization elements between the classes: a class specializes only
\* classes of a smaller number, so the graph has no cycle.
GeneralizationElements ==
    {g \in [specific : StereoClasses, general : StereoClasses] : g.general < g.specific}

RECURSIVE InOrder(_)
InOrder(G) ==
    IF G = {} THEN <<>>
    ELSE LET g == CHOOSE x \in G : \A y \in G :
                      x.general * NumClasses + x.specific <=
                      y.general * NumClasses + y.specific
         IN  <<g>> \o InOrder(G \ {g})

Orders == {o \in [StereoClasses -> StereoClasses] : \A i, j \in StereoClasses : o[i] = o[j] => i = j}

StereoInit ==
    /\ pc = "generalizations"
    /\ err = None
    /\ \E o \in Orders, ap \in [StereoClasses -> {<<>>} \cup {<<i>> : i \in Instances}],
          G \in SUBSET GeneralizationElements :
         stereo = [order |-> o, appliedStereotype |-> ap,
                   generalizations |-> InOrder(G),
                   specialization |-> [c \in StereoClasses |-> <<>>],
                   generalization |-> [c \in StereoClasses |-> <<>>],
                   stereotypeName |-> [c \in StereoClasses |-> None]]
    /\ cursor = 0
    /\ head = None
    /\ classes = {}
    /\ extensions = <<>>
    /\ refs = <<>>
    /\ history = <<>>
    /\ GenIdle

\* Lines 171-176 over the Generalization elements gs.
RECURSIVE enrich_classes_with_generalizations(_, _)
enrich_classes_with_generalizations(cs, gs) ==
    IF gs = <<>> THEN cs
    ELSE LET specific == Head(gs).specific
             general  == Head(gs).general
         IN  enrich_classes_with_generalizations(
                 [cs EXCEPT !.generalization[specific] = Append(@, general),
                            !.specialization[general] = Append(@, specific)],
                 Tail(gs))

\* tag_children without the recursive call of line 199.
tag_children_direct(names, specialization, kids, sTypeName) ==
    [c \in DOMAIN names |->
        IF \E i \in DOMAIN kids : kids[i] = c THEN sTypeName ELSE names[c]]

\* Lines 193-199: tag_children(me), kids being me.specialization.
RECURSIVE tag_children(_, _, _, _)
tag_children(names, specialization, kids, sTypeName) ==
    IF kids = <<>> THEN names
    ELSE LET child == Head(kids)
             tagged == [names EXCEPT ![child] = sTypeName]
         IN  tag_children(
                 tag_children(tagged, specialization, specialization[child], sTypeName),
                 specialization, Tail(kids), sTypeName)

\* Lines 183-201 for class c.
tag_class(cs, c) ==
    IF cs.appliedStereotype[c] = <<>> THEN cs
    ELSE LET instSpec == cs.appliedStereotype[c][1]
             sType    == classifier(instSpec)[1]
             own      == [cs.stereotypeName EXCEPT ![c] = StereotypeNameOf(sType)]
         IN  [cs EXCEPT !.stereotypeName =
                 tag_children(own, cs.specialization, cs.specialization[c],
                              StereotypeNameOf(sType))]

\* Line 282.
BuildGeneralizations ==
    /\ pc = "generalizations"
    /\ stereo' = enrich_classes_with_generalizations(stereo, stereo.generalizations)
    /\ pc' = "stereotypes"
    /\ UNCHANGED <<genVars, err, head, classes, extensions, refs, cursor, history>>

\* Lines 182-201 for the next class of classes.values().
TagClass ==
    /\ pc = "stereotypes"
    /\ cursor < NumClasses
    /\ stereo' = tag_class(stereo, stereo.order[cursor + 1])
    /\ cursor' = cursor + 1
    /\ UNCHANGED <<genVars, pc, err, head, classes, extensions, refs, history>>

\* Line 202.
EndTagging ==
    /\ pc = "stereotypes"
    /\ cursor = NumClasses
    /\ pc' = "tagged"
    /\ UNCHANGED <<genVars, err, head, classes, extensions, stereo, refs,
                   cursor, history>>

SpecStereo == StereoInit /\ [][BuildGeneralizations \/ TagClass \/ EndTagging]_vars

\* ---------------------------------------------------------------------
\* resolve(val, attr) (lines 220-235).  refs[val][attr] is the entry of
\* val.references: kind "missing" (no such key), "none" (None), "id" (an
\* identifier, v[1]), "ids" (a list of identifiers v), "element" (an
\* element, v[1]) or "elements" (a list of elements v).

Ref(kind, v) == [kind |-> kind, v |-> v]

\* The keys of all_elements.
Elements == {"p1", "p2", "i1", "s1", "f1"}

\* The fields generate() resolves (lines 268-273).
ResolveSites ==
    {<<"p1", "appliedStereotype">>, <<"p2", "appliedStereotype">>,
     <<"i1", "slot">>, <<"s1", "definingFeature">>}

ResolveInit ==
    /\ pc = "resolving"
    /\ err = None
    /\ \E a1 \in {Ref("missing", <<>>), Ref("ids", <<>>), Ref("ids", <<"i1">>)},
          a2 \in {Ref("missing", <<>>), Ref("ids", <<>>), Ref("ids", <<"i1">>)},
          sl \in {Ref("missing", <<>>), Ref("ids", <<"s1">>)},
          df \in {Ref("missing", <<>>), Ref("id", <<"f1">>)} :
         refs = [e \in Elements |->
                    IF e = "p1" THEN [appliedStereotype |-> a1]
                    ELSE IF e = "p2" THEN [appliedStereotype |-> a2]
                    ELSE IF e = "i1" THEN [slot |-> sl]
                    ELSE IF e = "s1" THEN [definingFeature |-> df]
                    ELSE <<>>]
    /\ history = <<>>
    /\ cursor = 0
    /\ head = None
    /\ classes = {}
    /\ extensions = <<>>
    /\ stereo = <<>>
    /\ GenIdle

\* all_elements[r] for every r of a list: the KeyError of the first
\* r that is no key of all_elements.  An element is not an identifier.
resolve(ref) ==
    IF ref.kind = "missing" THEN [err |-> None, ref |-> Ref("none", <<>>)]
    ELSE IF ref.kind = "ids"
    THEN IF \A i \in DOMAIN ref.v : ref.v[i] \in Elements
         THEN [err |-> None, ref |-> Ref("elements", ref.v)]
         ELSE [err |-> "KeyError", ref |-> ref]
    ELSE IF ref.kind = "elements"
    THEN IF ref.v = <<>>
         THEN [err |-> None, ref |-> Ref("elements", <<>>)]
         ELSE [err |-> "KeyError", ref |-> ref]
    ELSE IF ref.kind = "id" /\ ref.v[1] \in Elements
    THEN [err |-> None, ref |-> Ref("element", ref.v)]
    ELSE [err |-> "KeyError", ref |-> ref]

\* One call resolve(val, attr).
Resolve ==
    /\ pc = "resolving"
    /\ Len(history) < MaxCalls
    /\ \E site \in ResolveSites :
         LET val  == site[1]
             attr == site[2]
             r    == resolve(refs[val][attr])
         IN  /\ refs' = [refs EXCEPT ![val][attr] = r.ref]
             /\ err' = r.err
             /\ pc' = IF r.err # None THEN "aborted" ELSE pc
             /\ history' = Append(history, [val |-> val, attr |-> attr,
                                            before |-> refs[val][attr],
                                            after |-> r.ref])
    /\ UNCHANGED <<genVars, head, classes, extensions, stereo, cursor>>

SpecResolve == ResolveInit /\ [][Resolve]_vars

\* =====================================================================
\* The writer calls and the classification of association ends (Spec,
\* SpecPair).

Ends == {id \in DOMAIN properties : id[1] > 0}

Attributes == {id \in DOMAIN properties : id[1] = 0}

Opposite(e) == <<e[1], 3 - e[2]>>

DictValues(d) == {d[i].v : i \in DOMAIN d}

CallsOf(op, h) == {i \in DOMAIN calls : calls[i].op = op /\ calls[i].head = h}

Occurrences(seq, x) == Cardinality({i \in DOMAIN seq : seq[i] = x})

\* The type of end e carries the SimpleAttribute stereotype.
SimpleTyped(e) ==
    /\ properties[e].type \in AllClasses
    /\ stereotypeName(properties[e].type) = "SimpleAttribute"

\* Both ends of the association of e went through the loop of lines 313-338
\* and the iteration for e did not raise.
Classified(e) ==
    /\ e \in DOMAIN branch
    /\ Opposite(e) \in DOMAIN branch
    /\ branch[e] # "duplicate"

\* ---------------------------------------------------------------------
\* The order of the writer calls (Spec).

\* The loop of generate() a call belongs to, in the order of the loops.
Loop(c) ==
    CASE c.op = "add_classdef" -> 1
      [] c.op = "add_attribute" /\ c.head[1] > 0 -> 3
      [] c.op = "add_attribute" /\ c.head[1] = 0 ->
             IF c.head \in DictValues(derivedattributes) THEN 4 ELSE 2
      [] c.op = "add_association" -> 3
      [] c.op = "add_derivedunion" -> 5
      [] c.op = "add_redefine" -> 6
      [] c.op = "add_operation" -> 7
      [] c.op = "write" -> 8

\* C1, as amended: the writer calls occur in this order: all add_classdef;
\* add_attribute for the attributes that the overrides do not derive; then,
\* association by association, add_association and the add_attribute of a
\* simple-attribute rewrite; add_attribute for the attributes held back in
\* derivedattributes; all add_derivedunion; all add_redefine; all
\* add_operation; the single write.
C1_CallOrder ==
    /\ \A i, j \in DOMAIN calls : i < j => Loop(calls[i]) <= Loop(calls[j])
    /\ pc = "done" =>
           {i \in DOMAIN calls : calls[i].op = "write"} = {Len(calls)}

\* The group of a call in the order C1 states.
Group(c) ==
    CASE c.op = "add_classdef" -> 1
      [] c.op = "add_attribute" -> 2
      [] c.op = "add_association" -> 3
      [] c.op = "add_redefine" -> 4
      [] c.op = "add_derivedunion" -> 5
      [] c.op = "add_operation" -> 6
      [] c.op = "write" -> 7

\* C1 as stated: in a run that reaches write, no call of a later group
\* (classdef, attribute, association, redefine, derivedunion, operation,
\* write) precedes a call of an earlier one.
C1_AsStated ==
    pc = "done" =>
        \A i, j \in DOMAIN calls : i < j => Group(calls[i]) <= Group(calls[j])

\* A finished run that wrote an association, then a held-back attribute,
\* then a derived union.
C1_Witness ==
    /\ pc = "done"
    /\ \E i, j, k \in DOMAIN calls :
         /\ i < j
         /\ j < k
         /\ calls[i].op = "add_association"
         /\ calls[j].op = "add_attribute"
         /\ calls[j].head \in DictValues(derivedattributes)
         /\ calls[k].op = "add_derivedunion"

\* ---------------------------------------------------------------------
\* Classification of the association ends (Spec).

\* a.asAttribute of the association of e is set.
InSimpleAssociation(e) == SimpleTyped(e) \/ SimpleTyped(Opposite(e))

IsNavigable(e) == Truthy(properties[e].class_)

InUnions(e) == e \in DictValues(derivedunions)

InRedefines(e) == \E i \in DOMAIN redefines : redefines[i] = e

IsPlainAssociation(e) == CallsOf("add_association", e) # {}

\* The classes of C2 that end e falls into.
ClassesOf(e) ==
    {k \in {"non-navigable", "simple-attribute", "redefinition",
             "derived-union", "plain-association"} :
        \/ k = "simple-attribute" /\ InSimpleAssociation(e)
        \/ k = "non-navigable" /\ ~InSimpleAssociation(e) /\ ~IsNavigable(e)
        \/ k = "redefinition" /\ InRedefines(e)
        \/ k = "derived-union" /\ InUnions(e)
        \/ k = "plain-association" /\ IsPlainAssociation(e)}

\* C2: each end of a processed association falls into exactly one class;
\* no end registered in derivedunions is written by add_association or
\* add_attribute, no end with a redefines tag is registered as a derived
\* union, no non-navigable end is registered as a derived union or a
\* redefinition.
C2_ExactlyOneClass ==
    \A e \in Ends :
        Classified(e) =>
            /\ Cardinality(ClassesOf(e)) = 1
            /\ InUnions(e) =>
                   CallsOf("add_association", e) \cup CallsOf("add_attribute", e) = {}
            /\ Truthy(properties[e].redefines) => ~InUnions(e)
            /\ ~IsNavigable(e) => (~InUnions(e) /\ ~InRedefines(e))

\* ---------------------------------------------------------------------
\* The simple-attribute rewrite (Spec).

\* The end a.asAttribute names: the last member end with a simple type.
AsAttribute(e) == IF SimpleTyped(<<e[1], 2>>) THEN <<e[1], 2>> ELSE <<e[1], 1>>

AllCallsOf(e) == {i \in DOMAIN calls : calls[i].head = e \/ calls[i].tail = e}

\* The one add_attribute call of the rewrite of the association of s.
Rewritten(s) ==
    /\ Cardinality(CallsOf("add_attribute", s)) = 1
    /\ \A i \in CallsOf("add_attribute", s) :
           /\ calls[i].typeValue = "str"
           /\ calls[i].name = properties[s].name
           /\ calls[i].class_name = properties[Opposite(s)].type
    /\ AllCallsOf(s) = CallsOf("add_attribute", s)
    /\ AllCallsOf(Opposite(s)) = {}
    /\ properties[s].written
    /\ properties[Opposite(s)].written

\* C3, as amended: for a processed association with a simple-typed end,
\* let s be a.asAttribute (the second end when both are simple-typed).  If
\* s is navigable there is exactly one add_attribute call for s, with
\* typeValue "str", the name of s and the name of the type of the other end
\* as class_name, both ends are written and no other writer call names
\* either end.  If s is not navigable no writer call names either end and
\* both stay unwritten.
C3_SimpleAttributeRewrite ==
    \A e \in Ends :
        (Classified(e) /\ InSimpleAssociation(e)) =>
            LET s == AsAttribute(e)
            IN  IF IsNavigable(s) THEN Rewritten(s)
                ELSE /\ AllCallsOf(s) \cup AllCallsOf(Opposite(s)) = {}
                     /\ ~properties[s].written
                     /\ ~properties[Opposite(s)].written

\* C3 as stated: every processed association with a simple-typed end is
\* rewritten, whether a.asAttribute is navigable or not.  (The class that
\* class_name names is read as the class at the other end, the type of the
\* other end.)
C3_AsStated ==
    \A e \in Ends :
        (Classified(e) /\ InSimpleAssociation(e)) => Rewritten(AsAttribute(e))

\* An association both of whose ends are simple-typed and navigable has
\* been rewritten as an attribute named after its second end.
C3_Witness ==
    \E e \in Ends :
        /\ Classified(e)
        /\ SimpleTyped(e)
        /\ SimpleTyped(Opposite(e))
        /\ IsNavigable(e)
        /\ IsNavigable(Opposite(e))
        /\ e[2] = 2
        /\ Rewritten(e)

\* ---------------------------------------------------------------------
\* Owned attributes (Spec).

\* C10: in a completed run every owned attribute without an association
\* of a retained class is passed to add_attribute exactly once.
C10_AttributeOnce ==
    pc = "done" =>
        \A a \in Attributes : Cardinality(CallsOf("add_attribute", a)) = 1

\* ---------------------------------------------------------------------
\* Derived unions (SpecPair).

\* C4: an end that reaches the derived-union branch (derived, or declared
\* derived by the overrides) under a name that is no key of derivedunions
\* is stored under it with an empty union list and stays the end stored
\* under it; under a name that is a key, the run ends with the assertion
\* error, the end stored first stays, and write is never called.  No two
\* items of derivedunions have the same name.
C4_DerivedUnionUnique ==
    /\ \A i, j \in DOMAIN derivedunions :
           derivedunions[i].k = derivedunions[j].k => i = j
    /\ \A e \in DOMAIN branch :
           LET p == properties[e]
           IN  /\ branch[e] \in {"derivedunion", "duplicate"} =>
                      (Truthy(p.derived) \/ derives(overrides, p.class_name, p.name))
               /\ branch[e] = "derivedunion" =>
                      /\ p.name \in DictKeys(derivedunions)
                      /\ DictGet(derivedunions, p.name) = e
                      /\ pc = "associations" => p.union = {<<>>}
               /\ branch[e] = "duplicate" =>
                      /\ err = "AssertionError"
                      /\ pc = "aborted"
                      /\ p.name \in DictKeys(derivedunions)
                      /\ DictGet(derivedunions, p.name) # e
                      /\ branch[DictGet(derivedunions, p.name)] = "derivedunion"
                      /\ \A i \in DOMAIN calls : calls[i].op # "write"
    /\ pc = "aborted" => \A i \in DOMAIN calls : calls[i].op # "write"

\* An end of the second association reached the branch under the name an
\* end of the first association is registered with, and the run ended.
C4_Witness ==
    \E e \in DOMAIN branch :
        /\ branch[e] = "duplicate"
        /\ e[1] = 2
        /\ DictGet(derivedunions, properties[e].name)[1] = 1
        /\ pc = "aborted"

\* The diagnostics for subset name s of property a.
Diagnostics(a, s) ==
    {i \in DOMAIN msgs : /\ msgs[i].text = "not a derived union"
                         /\ msgs[i].property = a
                         /\ msgs[i].name = s}

\* The places of property a in the union list of the union named s.
Linked(a, s) ==
    IF s \in DictKeys(derivedunions)
    THEN UNION {{i \in DOMAIN l : l[i] = a} :
                   l \in properties[DictGet(derivedunions, s)].union}
    ELSE {}

Aggregated == pc \notin {"classdefs", "attributes", "associations", "unions", "aborted"}

SubsetNames == {"x", "y", "u"}

\* C8, as amended: in the aggregation pass, for every entry s of the
\* subsets of a property whose type is a retained class, the property is
\* appended to the union named s when s is registered and one "not a
\* derived union" diagnostic is produced when it is not; for a property
\* whose type is not a retained class nothing is appended and no diagnostic
\* is produced, registered or not.
C8_SubsetAggregation ==
    Aggregated =>
        \A a \in DOMAIN properties : \A s \in SubsetNames :
            LET n == Occurrences(properties[a].subsets, s)
            IN  IF properties[a].type \in RetainedClasses
                THEN IF s \in DictKeys(derivedunions)
                     THEN /\ Cardinality(Linked(a, s)) = n
                          /\ Diagnostics(a, s) = {}
                     ELSE /\ Cardinality(Diagnostics(a, s)) = n
                          /\ Linked(a, s) = {}
                ELSE /\ Linked(a, s) = {}
                     /\ Diagnostics(a, s) = {}

\* C8 as stated: every subset name that is not registered produces exactly
\* one diagnostic, whatever the type of the property; a registered one gets
\* the property appended exactly when its type is a retained class.
C8_AsStated ==
    Aggregated =>
        \A a \in DOMAIN properties : \A s \in SubsetNames :
            Occurrences(properties[a].subsets, s) = 1 =>
                IF s \in DictKeys(derivedunions)
                THEN (Linked(a, s) # {}) <=> (properties[a].type \in RetainedClasses)
                ELSE Cardinality(Diagnostics(a, s)) = 1

\* The pass has run over a property of a SimpleAttribute type that subsets
\* a registered union and an unregistered one, and over a property of a
\* retained type that was appended to the registered union.
C8_Witness ==
    /\ Aggregated
    /\ \E a, b \in DOMAIN properties :
         /\ properties[a].type \notin RetainedClasses
         /\ properties[a].subsets = <<"x", "u">>
         /\ "x" \in DictKeys(derivedunions)
         /\ Diagnostics(a, "u") = {}
         /\ Linked(a, "x") = {}
         /\ properties[b].type \in RetainedClasses
         /\ Linked(b, "x") # {}
         /\ Diagnostics(b, "u") # {}

\* =====================================================================
\* Multiplicities (SpecEnd).

\* C5, as amended: for a navigable named end, (i) a missing (or empty)
\* upperValue resolves to upper "*"; (ii) a missing (or empty) lowerValue
\* resolves to lower = upper, except that it resolves to 0 when upper is
\* "*"; (iii) lower is never "*", and a lowerValue other than "*" is kept
\* as it is, also under upper "*".
C5_MultiplicityNormalization ==
    (pc = "resolved" /\ Truthy(head.navigable)) =>
        /\ ~Truthy(head.upperValue) => head.upper = "*"
        /\ ~Truthy(head.lowerValue) =>
               head.lower = IF head.upper = "*" THEN Int0 ELSE head.upper
        /\ head.lower # "*"
        /\ (Truthy(head.lowerValue) /\ head.lowerValue # "*") =>
               head.lower = head.lowerValue

\* C5 as stated: (i) upperValue absent => upper "*"; (ii) lowerValue
\* absent => lower = upper; (iii) upper "*" => lower 0.
C5_AsStated ==
    (pc = "resolved" /\ Truthy(head.navigable)) =>
        /\ head.upperValue = None => head.upper = "*"
        /\ head.lowerValue = None => head.lower = head.upper
        /\ head.upper = "*" => head.lower = Int0

\* A navigable end 1..* has been resolved: upper "*", lower "1".
C5_Witness ==
    /\ pc = "resolved"
    /\ Truthy(head.navigable)
    /\ head.lowerValue = "1"
    /\ head.upperValue = None
    /\ head.upper = "*"
    /\ head.lower = "1"

\* =====================================================================
\* Metaclass removal (SpecMeta).

\* The types of the typed member ends of all Extensions.
TypedEndTypes ==
    UNION {{extensions[i].memberEnd[j].type : j \in DOMAIN extensions[i].memberEnd} :
              i \in DOMAIN extensions} \ {None}

\* C6: after filter_out_metaclasses the type of every typed member end of
\* every Extension is absent from the class map, and the classes removed
\* are exactly those types.
C6_MetaclassRemoval ==
    pc = "filtered" => classes = MetaClasses \ TypedEndTypes

\* =====================================================================
\* Stereotype propagation (SpecStereo).

Specifics(c) ==
    {stereo.generalizations[i].specific :
        i \in {k \in DOMAIN stereo.generalizations :
                  stereo.generalizations[k].general = c}}

RECURSIVE Within(_, _)
Within(S, n) ==
    IF n = 0 THEN S
    ELSE Within(S \cup UNION {Specifics(c) : c \in S}, n - 1)

\* The classes reachable from c over specialization edges.
Descendants(c) == Within(Specifics(c), NumClasses)

HasStereotype(c) == stereo.appliedStereotype[c] # <<>>

AppliedName(c) == StereotypeNameOf(classifier(stereo.appliedStereotype[c][1])[1])

Position(c) == CHOOSE i \in StereoClasses : stereo.order[i] = c

\* The stereotyped classes whose tag reaches d: d itself and its ancestors.
Taggers(d) == {c \in StereoClasses : HasStereotype(c) /\ (c = d \/ d \in Descendants(c))}

\* C7, as amended: after the pass, the stereotypeName of every class is the
\* stereotype name of the class iterated last among the stereotyped classes
\* that are the class itself or one of its ancestors, and None when there
\* is no such class.  (A class stereotyped S and its descendants all carry
\* S unless a class of their line with another stereotype is iterated later.)
C7_StereotypePropagation ==
    pc = "tagged" =>
        \A d \in StereoClasses :
            IF Taggers(d) = {} THEN stereo.stereotypeName[d] = None
            ELSE stereo.stereotypeName[d] =
                     AppliedName(CHOOSE c \in Taggers(d) :
                                     \A c2 \in Taggers(d) : Position(c2) <= Position(c))

\* C7 as stated: every stereotyped class and every class reachable from it
\* over specialization edges carries the class's stereotype name.
C7_AsStated ==
    pc = "tagged" =>
        \A c \in StereoClasses :
            HasStereotype(c) =>
                /\ stereo.stereotypeName[c] = AppliedName(c)
                /\ \A d \in Descendants(c) : stereo.stereotypeName[d] = AppliedName(c)

\* A chain of three classes has been tagged where the middle class carries
\* another stereotype than the top class and is iterated after it.
C7_Witness ==
    /\ pc = "tagged"
    /\ \E c, d, e \in StereoClasses :
         /\ d \in Specifics(c)
         /\ e \in Specifics(d)
         /\ HasStereotype(c)
         /\ HasStereotype(d)
         /\ AppliedName(c) # AppliedName(d)
         /\ Position(c) < Position(d)
         /\ stereo.stereotypeName[c] = AppliedName(c)
         /\ stereo.stereotypeName[e] = AppliedName(d)

\* =====================================================================
\* Reference resolution (SpecResolve).

\* C9: a second call of resolve on the same element and field leaves the
\* field as it is and raises no error.
C9_ResolveIdempotent ==
    \A i, j \in DOMAIN history :
        (i < j /\ history[i].val = history[j].val /\ history[i].attr = history[j].attr)
            => /\ history[j].after = history[j].before
               /\ j = Len(history) => err = None

====
